---- MODULE Spec2Model ----
(***************************************************************************)
(* Model of backend/main.py: the asynchronous task orchestration layer of  *)
(* the file converter.  The request handlers (upload_file, get_status,     *)
(* download_file) are coroutines of one event loop: between two awaits a   *)
(* handler is not interleaved with another handler.  conversion_task is a  *)
(* plain function, so the framework runs it on a worker thread after the   *)
(* response of the upload was sent; its statements interleave freely with  *)
(* the handlers and with the conversion_task of other tasks.               *)
(***************************************************************************)
EXTENDS Integers, Sequences, FiniteSets, TLC

\* ---- bounds ----
MaxTasks == 2                      \* identifiers uuid4 can hand out

\* ---- program constants and input domains ----
MAX_SIZE == 4 * 1024 * 1024
TaskIds == 1..MaxTasks
Sizes == {10, MAX_SIZE, MAX_SIZE + 1}
Filenames == {"a.txt"}
Formats == {"pdf"}
Absent == "<absent>"               \* a key that the dict does not hold
LostContextMsg == "Task context lost due to serverless restart. Please try again."
Terminal == {"completed", "failed"}

NoExc == [cls |-> "none", msg |-> ""]
KeyError(t) == [cls |-> "KeyError", msg |-> ToString(t)]
ConverterErrors ==
    { [cls |-> "ValueError", msg |-> "Unsupported format"],
      [cls |-> "RuntimeError", msg |-> "Conversion engine error"],
      [cls |-> "RuntimeError", msg |-> LostContextMsg] }

VARIABLES
    tasks,      \* the registry: task id -> record (dict of line 40)
    uploads,    \* names of the files in UPLOAD_DIR
    downloads,  \* names of the files in DOWNLOAD_DIR
    nextId,     \* the next identifier uuid4 hands out
    req,        \* the handler that holds the event loop, or the last one that
                \* finished, with its locals and its response
    scheduled,  \* background work handed to the framework with a sent response
    exec,       \* per task id: position and locals of its conversion_task
    accepted    \* history: the number of uploads answered with a task identifier

vars == <<tasks, uploads, downloads, nextId, req, scheduled, exec, accepted>>

\* ---- records ----
\* a registry entry that keeps the status only
NewRecord_bare(input_filename, target_format) ==
    [status |-> "pending", input_file |-> Absent,
     target_format |-> Absent, output_file |-> Absent, error |-> Absent]

\* lines 75-79
NewRecord(input_filename, target_format) ==
    [status |-> "pending", input_file |-> input_filename,
     target_format |-> target_format, output_file |-> Absent, error |-> Absent]

LostRecord ==
    [status |-> "failed", input_file |-> Absent, target_format |-> Absent,
     output_file |-> Absent, error |-> LostContextMsg]

NoRecord ==
    [status |-> "none", input_file |-> Absent, target_format |-> Absent,
     output_file |-> Absent, error |-> Absent]

IdleReq ==
    [op |-> "none", pc |-> "done", size |-> 0, filename |-> "", target_format |-> "",
     task_id |-> 0, input_filename |-> "", write |-> "-", bg |-> {},
     output_filename |-> "", code |-> 0, detail |-> "", body |-> NoRecord]

NewExec == [pc |-> "new", output_path |-> Absent, e |-> NoExc]

\* a write that lands in the record of every task
SetItem_all(reg, t, key, value) ==
    [x \in DOMAIN reg |-> [reg[x] EXCEPT ![key] = value]]

\* tasks[task_id][key] = value
SetItem(reg, t, key, value) == [reg EXCEPT ![t] = [@ EXCEPT ![key] = value]]

\* an assignment that replaces the whole registry
Register_replace(reg, t, rec) == [x \in {t} |-> rec]

\* tasks[task_id] = record
Register(reg, t, rec) ==
    [x \in DOMAIN reg \cup {t} |-> IF x = t THEN rec ELSE reg[x]]

\* ---- pure pieces of the handlers ----
\* a size check that also rejects a payload of exactly the limit
TooLarge_atMax(n) == n >= MAX_SIZE
TooLarge(n) == n > MAX_SIZE

\* an identifier source that repeats the identifier it handed out before
uuid4_reused == IF nextId > 1 THEN nextId - 1 ELSE nextId
uuid4 == nextId

\* a staged name that leaves the identifier out
InputFilename_noid(file_id, filename) == filename
\* line 64
InputFilename(file_id, filename) == ToString(file_id) \o "_" \o filename

\* a handler that catches one error class only
IsException_narrow(e) == e.cls = "ValueError"
IsException(e) == e.cls \in {"ValueError", "RuntimeError", "KeyError"}

\* the Converter collaborator: an output path in the outbound directory, or an error
process_conversion(input_filename, target_format) ==
    { [ok |-> TRUE, name |-> input_filename \o "." \o target_format, e |-> NoExc] }
    \cup { [ok |-> FALSE, name |-> Absent, e |-> err] : err \in ConverterErrors }

\* a conversion that may start as soon as it was added
Started_eager(t) ==
    \/ \E a \in scheduled : a[1] = t
    \/ \E a \in req.bg : a[1] = t
\* background tasks run once the response that carries them was sent
Started(t) == \E a \in scheduled : a[1] = t

Args(t) == CHOOSE a \in scheduled \cup req.bg : a[1] = t

\* an event loop that is held while a conversion is inside the Converter
LoopFree_blocking == req.pc = "done" /\ \A t \in TaskIds : exec[t].pc # "l45"
\* a handler starts when no other handler is between two awaits
LoopFree == req.pc = "done"

Init ==
    /\ tasks = << >>
    /\ uploads = {}
    /\ downloads = {}
    /\ nextId = 1
    /\ req = IdleReq
    /\ scheduled = {}
    /\ exec = [t \in TaskIds |-> NewExec]
    /\ accepted = 0

\* ---- upload_file (lines 55-82) ----

\* lines 58-61: the payload is read and its size checked
upload_l58(size, filename, target_format) ==
    /\ LoopFree
    /\ IF TooLarge(size)
       THEN req' = [IdleReq EXCEPT !.op = "upload", !.size = size,
                       !.filename = filename, !.target_format = target_format,
                       !.code = 413, !.detail = "File too large. Max 4MB on Vercel."]
       ELSE /\ nextId <= MaxTasks
            /\ req' = [IdleReq EXCEPT !.op = "upload", !.pc = "l63", !.size = size,
                          !.filename = filename, !.target_format = target_format]
    /\ UNCHANGED <<tasks, uploads, downloads, nextId, scheduled, exec, accepted>>

\* a write failure that is logged and then ignored
upload_l63_swallow ==
    /\ req.op = "upload" /\ req.pc = "l63"
    /\ LET file_id == uuid4
           input_filename == InputFilename(file_id, req.filename)
       IN \E w \in {"ok", "open_failed", "write_failed"} :
            /\ uploads' = IF w = "open_failed" THEN uploads
                          ELSE uploads \cup {input_filename}
            /\ req' = [req EXCEPT !.pc = "l75", !.task_id = file_id,
                           !.input_filename = input_filename, !.write = w]
    /\ nextId' = nextId + 1
    /\ UNCHANGED <<tasks, downloads, scheduled, exec, accepted>>

\* lines 63-72: the identifier is drawn and the bytes are written to UPLOAD_DIR;
\* open() may fail (no file), or write() may fail (a truncated file stays)
upload_l63 ==
    /\ req.op = "upload" /\ req.pc = "l63"
    /\ LET file_id == uuid4
           input_filename == InputFilename(file_id, req.filename)
       IN \E w \in {"ok", "open_failed", "write_failed"} :
            /\ uploads' = IF w = "open_failed" THEN uploads
                          ELSE uploads \cup {input_filename}
            /\ req' = IF w = "ok"
                      THEN [req EXCEPT !.pc = "l75", !.task_id = file_id,
                                !.input_filename = input_filename, !.write = w]
                      ELSE [req EXCEPT !.pc = "done", !.task_id = file_id,
                                !.input_filename = input_filename, !.write = w,
                                !.code = 500,
                                !.detail = "Internal server error during upload."]
    /\ nextId' = nextId + 1
    /\ UNCHANGED <<tasks, downloads, scheduled, exec, accepted>>

\* an upload that schedules the conversion without registering the task
upload_l75_skip ==
    /\ req.op = "upload" /\ req.pc = "l75"
    /\ req' = [req EXCEPT !.pc = "l81"]
    /\ UNCHANGED <<tasks, uploads, downloads, nextId, scheduled, exec, accepted>>

\* lines 74-79: the task is registered as pending
upload_l75 ==
    /\ req.op = "upload" /\ req.pc = "l75"
    /\ tasks' = Register(tasks, req.task_id,
                         NewRecord(req.input_filename, req.target_format))
    /\ req' = [req EXCEPT !.pc = "l81"]
    /\ UNCHANGED <<uploads, downloads, nextId, scheduled, exec, accepted>>

\* an upload that forgets to schedule the conversion
upload_l81_noadd ==
    /\ req.op = "upload" /\ req.pc = "l81"
    /\ req' = [req EXCEPT !.pc = "l82"]
    /\ UNCHANGED <<tasks, uploads, downloads, nextId, scheduled, exec, accepted>>

\* line 81: the conversion is added to the background tasks of this response
upload_l81 ==
    /\ req.op = "upload" /\ req.pc = "l81"
    /\ req' = [req EXCEPT !.pc = "l82",
                   !.bg = {<<req.task_id, req.input_filename, req.target_format>>}]
    /\ UNCHANGED <<tasks, uploads, downloads, nextId, scheduled, exec, accepted>>

\* line 82: the handler returns; the framework sends the response and then
\* runs the background tasks it carries
upload_l82 ==
    /\ req.op = "upload" /\ req.pc = "l82"
    /\ scheduled' = scheduled \cup req.bg
    /\ req' = [req EXCEPT !.pc = "done", !.code = 200, !.bg = {}]
    /\ accepted' = accepted + 1
    /\ UNCHANGED <<tasks, uploads, downloads, nextId, exec>>

\* ---- get_status (lines 84-89) ----

\* lines 86-89: the body of the response
StatusResponse(reg, task_id) ==
    IF task_id \notin DOMAIN reg THEN LostRecord ELSE reg[task_id]

\* a status handler that answers an unknown identifier with not-found
get_status_404(task_id) ==
    /\ LoopFree
    /\ req' = IF task_id \notin DOMAIN tasks
              THEN [IdleReq EXCEPT !.op = "status", !.task_id = task_id,
                        !.code = 404, !.detail = "Task not found"]
              ELSE [IdleReq EXCEPT !.op = "status", !.task_id = task_id,
                        !.code = 200, !.body = tasks[task_id]]
    /\ UNCHANGED <<tasks, uploads, downloads, nextId, scheduled, exec, accepted>>

get_status(task_id) ==
    /\ LoopFree
    /\ req' = [IdleReq EXCEPT !.op = "status", !.task_id = task_id, !.code = 200,
                   !.body = StatusResponse(tasks, task_id)]
    /\ UNCHANGED <<tasks, uploads, downloads, nextId, scheduled, exec, accepted>>

\* ---- download_file (lines 91-102) ----

\* lines 93-94
download_l93(task_id) ==
    /\ LoopFree
    /\ req' = IF task_id \notin DOMAIN tasks \/ tasks[task_id].status # "completed"
              THEN [IdleReq EXCEPT !.op = "download", !.task_id = task_id,
                        !.code = 404, !.detail = "File not ready or task not found"]
              ELSE [IdleReq EXCEPT !.op = "download", !.task_id = task_id,
                        !.pc = "l96"]
    /\ UNCHANGED <<tasks, uploads, downloads, nextId, scheduled, exec, accepted>>

\* line 96: a missing key is a KeyError, which the framework answers with 500
download_l96 ==
    /\ req.op = "download" /\ req.pc = "l96"
    /\ req' = IF tasks[req.task_id].output_file = Absent
              THEN [req EXCEPT !.pc = "done", !.code = 500,
                        !.detail = "Internal Server Error"]
              ELSE [req EXCEPT !.pc = "l99",
                        !.output_filename = tasks[req.task_id].output_file]
    /\ UNCHANGED <<tasks, uploads, downloads, nextId, scheduled, exec, accepted>>

\* a download that removes the result file once it was served
download_l99_cleanup ==
    /\ req.op = "download" /\ req.pc = "l99"
    /\ req' = IF req.output_filename \notin downloads
              THEN [req EXCEPT !.pc = "done", !.code = 404,
                        !.detail = "File not found on disk"]
              ELSE [req EXCEPT !.pc = "done", !.code = 200]
    /\ downloads' = downloads \ {req.output_filename}
    /\ UNCHANGED <<tasks, uploads, nextId, scheduled, exec, accepted>>

\* lines 97-102
download_l99 ==
    /\ req.op = "download" /\ req.pc = "l99"
    /\ req' = IF req.output_filename \notin downloads
              THEN [req EXCEPT !.pc = "done", !.code = 404,
                        !.detail = "File not found on disk"]
              ELSE [req EXCEPT !.pc = "done", !.code = 200]
    /\ UNCHANGED <<tasks, uploads, downloads, nextId, scheduled, exec, accepted>>

\* a result file is removed from DOWNLOAD_DIR by something outside the program
remove_output(f) ==
    /\ f \in downloads
    /\ downloads' = downloads \ {f}
    /\ UNCHANGED <<tasks, uploads, nextId, req, scheduled, exec, accepted>>

\* ---- conversion_task (lines 42-52), one worker thread per scheduled task ----

\* line 49: an exception raised in the try block enters the handler, or escapes
Raise(x, e) ==
    IF IsException(e) THEN [x EXCEPT !.pc = "l51", !.e = e]
    ELSE [x EXCEPT !.pc = "escaped", !.e = e]

\* a conversion_task that calls the Converter without marking the task
conversion_task_l44_skip(t) ==
    /\ exec[t].pc = "new" /\ Started(t)
    /\ exec' = [exec EXCEPT ![t].pc = "l45"]
    /\ UNCHANGED <<tasks, uploads, downloads, nextId, req, scheduled, accepted>>

\* line 44
conversion_task_l44(t) ==
    /\ exec[t].pc = "new" /\ Started(t)
    /\ IF t \in DOMAIN tasks
       THEN /\ tasks' = SetItem(tasks, t, "status", "processing")
            /\ exec' = [exec EXCEPT ![t].pc = "l45"]
       ELSE /\ tasks' = tasks
            /\ exec' = [exec EXCEPT ![t] = Raise(@, KeyError(t))]
    /\ UNCHANGED <<uploads, downloads, nextId, req, scheduled, accepted>>

\* line 45: the Converter returns an output path or raises
conversion_task_l45(t) ==
    /\ exec[t].pc = "l45"
    /\ \E r \in process_conversion(Args(t)[2], Args(t)[3]) :
         IF r.ok
         THEN /\ downloads' = downloads \cup {r.name}
              /\ exec' = [exec EXCEPT ![t].pc = "l46", ![t].output_path = r.name]
         ELSE /\ downloads' = downloads
              /\ exec' = [exec EXCEPT ![t] = Raise(@, r.e)]
    /\ UNCHANGED <<tasks, uploads, nextId, req, scheduled, accepted>>

\* a conversion_task that records the output file before the status
conversion_task_l46_swapped(t) ==
    /\ exec[t].pc = "l46"
    /\ tasks' = SetItem(tasks, t, "output_file", exec[t].output_path)
    /\ exec' = [exec EXCEPT ![t].pc = "l47"]
    /\ UNCHANGED <<uploads, downloads, nextId, req, scheduled, accepted>>

\* line 46
conversion_task_l46(t) ==
    /\ exec[t].pc = "l46"
    /\ IF t \in DOMAIN tasks
       THEN /\ tasks' = SetItem(tasks, t, "status", "completed")
            /\ exec' = [exec EXCEPT ![t].pc = "l47"]
       ELSE /\ tasks' = tasks
            /\ exec' = [exec EXCEPT ![t] = Raise(@, KeyError(t))]
    /\ UNCHANGED <<uploads, downloads, nextId, req, scheduled, accepted>>

\* lines 47-48
conversion_task_l47(t) ==
    /\ exec[t].pc = "l47"
    /\ tasks' = SetItem(tasks, t, "output_file", exec[t].output_path)
    /\ exec' = [exec EXCEPT ![t].pc = "done"]
    /\ UNCHANGED <<uploads, downloads, nextId, req, scheduled, accepted>>

\* lines 50-51: inside the handler a KeyError has nothing left to catch it
conversion_task_l51(t) ==
    /\ exec[t].pc = "l51"
    /\ IF t \in DOMAIN tasks
       THEN /\ tasks' = SetItem(tasks, t, "status", "failed")
            /\ exec' = [exec EXCEPT ![t].pc = "l52"]
       ELSE /\ tasks' = tasks
            /\ exec' = [exec EXCEPT ![t].pc = "escaped", ![t].e = KeyError(t)]
    /\ UNCHANGED <<uploads, downloads, nextId, req, scheduled, accepted>>

\* a handler that marks the task failed and drops the error text
conversion_task_l52_noerror(t) ==
    /\ exec[t].pc = "l52"
    /\ exec' = [exec EXCEPT ![t].pc = "done"]
    /\ UNCHANGED <<tasks, uploads, downloads, nextId, req, scheduled, accepted>>

\* line 52
conversion_task_l52(t) ==
    /\ exec[t].pc = "l52"
    /\ tasks' = SetItem(tasks, t, "error", exec[t].e.msg)
    /\ exec' = [exec EXCEPT ![t].pc = "done"]
    /\ UNCHANGED <<uploads, downloads, nextId, req, scheduled, accepted>>

upload_file ==
    \/ \E size \in Sizes, filename \in Filenames, target_format \in Formats :
         upload_l58(size, filename, target_format)
    \/ upload_l63
    \/ upload_l75
    \/ upload_l81
    \/ upload_l82

download_file ==
    \/ \E task_id \in TaskIds : download_l93(task_id)
    \/ download_l96
    \/ download_l99

conversion_task(t) ==
    \/ conversion_task_l44(t)
    \/ conversion_task_l45(t)
    \/ conversion_task_l46(t)
    \/ conversion_task_l47(t)
    \/ conversion_task_l51(t)
    \/ conversion_task_l52(t)

Next ==
    \/ upload_file
    \/ \E task_id \in TaskIds : get_status(task_id)
    \/ download_file
    \/ \E t \in TaskIds : conversion_task(t)
    \/ \E f \in downloads : remove_output(f)

Spec == Init /\ [][Next]_vars

\* the handler code runs on to its return, and every scheduled conversion_task
\* is run and its Converter call returns or raises
FairSpec ==
    /\ Spec
    /\ WF_vars(upload_l63 \/ upload_l75 \/ upload_l81 \/ upload_l82)
    /\ \A t \in TaskIds : WF_vars(conversion_task(t))

TypeOK ==
    /\ DOMAIN tasks \subseteq TaskIds
    /\ \A t \in DOMAIN tasks :
         tasks[t].status \in {"pending", "processing", "completed", "failed"}
    /\ nextId \in 1..(MaxTasks + 1)
    /\ req.code \in {0, 200, 404, 413, 500}

\* ---- properties ----

WriteFailed == {"open_failed", "write_failed"}

\* C1: a reader never observes a half-updated record: a status response with
\* status completed carries output_file, one with status failed carries error.
C1_ReaderSeesWholeRecord ==
    req.op = "status" =>
        /\ req.body.status = "completed" => req.body.output_file # Absent
        /\ req.body.status = "failed" => req.body.error # Absent

\* C2: once the status of a task is completed or failed, no step of any
\* operation changes that status.
C2_TerminalStatusIsFinal ==
    [][\A t \in DOMAIN tasks :
          tasks[t].status \in Terminal => tasks'[t].status = tasks[t].status]_vars

C2_Witness ==
    /\ req.op = "download" /\ req.pc = "done" /\ req.code = 200
    /\ tasks[req.task_id].status = "completed"
    /\ exec[req.task_id].pc = "done"

\* C3: if a status poll returned the record of a registered task (it carries
\* input_file) with status completed or failed, the next poll of the same
\* identifier returns the identical record.
C3_TerminalPollsAgree ==
    [][(/\ req.op = "status" /\ req.body.input_file # Absent
        /\ req.body.status \in Terminal
        /\ req'.op = "status" /\ req'.task_id = req.task_id)
          => req'.body = req.body]_vars

\* C4: a task is created at pending, and its status only changes from pending
\* to processing and from processing to completed or failed.
C4_OrderedTransitions ==
    [][\A t \in DOMAIN tasks' :
          IF t \notin DOMAIN tasks THEN tasks'[t].status = "pending"
          ELSE \/ tasks'[t].status = tasks[t].status
               \/ <<tasks[t].status, tasks'[t].status>> \in
                      { <<"pending", "processing">>,
                        <<"processing", "completed">>,
                        <<"processing", "failed">> }]_vars

C4_Witness ==
    \E t \in DOMAIN tasks :
        /\ tasks[t].status = "failed" /\ tasks[t].error # Absent
        /\ exec[t].pc = "done"

\* C5: every download request ends with the file (task known, completed, file
\* on disk) or with a 404, and with nothing else.
C5_DownloadFileOr404 ==
    (req.op = "download" /\ req.pc = "done") =>
        /\ req.code \in {200, 404}
        /\ req.code = 200 =>
             /\ req.task_id \in DOMAIN tasks
             /\ tasks[req.task_id].status = "completed"
             /\ req.output_filename = tasks[req.task_id].output_file

\* C6: every registered task eventually reaches completed or failed.
C6_EventuallyTerminal ==
    \A t \in TaskIds :
        (t \in DOMAIN tasks) ~> (t \in DOMAIN tasks /\ tasks[t].status \in Terminal)

C6_Witness ==
    /\ DOMAIN tasks = TaskIds
    /\ \A t \in TaskIds : tasks[t].status \in Terminal /\ exec[t].pc = "done"

\* C7: at the step in which upload_file returns the task identifier, the
\* status of the task is pending or processing.
C7_NotTerminalAtReturn ==
    [][(req.op = "upload" /\ req.pc = "l82" /\ req'.pc = "done") =>
          /\ req'.code = 200
          /\ req.task_id \in DOMAIN tasks'
          /\ tasks'[req.task_id].status \in {"pending", "processing"}]_vars

C7_Witness ==
    /\ req.op = "upload" /\ req.pc = "done" /\ req.code = 200
    /\ tasks[req.task_id].status = "pending"
    /\ Started(req.task_id)

\* C8: a payload of exactly MAX_SIZE bytes passes the size check and, its
\* bytes written, registers a task; a larger payload is answered with 413 in
\* a step that changes neither the registry, nor the staging directory, nor
\* the scheduled background work.
C8_SizeLimit ==
    [][/\ (req.pc = "done" /\ req'.op = "upload" /\ req' # req) =>
             /\ req'.size > MAX_SIZE =>
                  /\ req'.pc = "done" /\ req'.code = 413
                  /\ tasks' = tasks /\ uploads' = uploads
                  /\ scheduled' = scheduled /\ req'.bg = {} /\ exec' = exec
             /\ req'.size <= MAX_SIZE => req'.pc = "l63" /\ req'.code = 0
       /\ (req'.op = "upload" /\ req'.size <= MAX_SIZE /\ req'.pc = "done") =>
             \/ req'.code = 200 /\ req'.task_id \in DOMAIN tasks'
             \/ req'.code = 500 /\ req'.write \in WriteFailed]_vars

C8_Witness ==
    /\ req.op = "upload" /\ req.size = MAX_SIZE
    /\ req.pc = "done" /\ req.code = 200
    /\ req.task_id \in DOMAIN tasks

\* C9: when writing the bytes fails the upload answers 500, the registry gets
\* no entry and no background conversion is scheduled.
C9_WriteFailure ==
    [][/\ (req.op = "upload" /\ req.pc = "l63" /\ req'.write \in WriteFailed) =>
             /\ req'.pc = "done" /\ req'.code = 500
             /\ tasks' = tasks /\ scheduled' = scheduled /\ req'.bg = {}
       /\ (req'.op = "upload" /\ req'.write \in WriteFailed) =>
             /\ req'.pc = "done" /\ req'.code = 500
             /\ req'.task_id \notin DOMAIN tasks'
             /\ ~ \E a \in scheduled' \cup req'.bg : a[1] = req'.task_id
             /\ exec'[req'.task_id].pc = "new"]_vars

C9_Witness ==
    /\ req.op = "upload" /\ req.write \in WriteFailed
    /\ req.pc = "done" /\ req.code = 500

\* C10: whatever the Converter raises, conversion_task catches it and ends
\* with the task failed and the error text recorded; nothing escapes.
C10_ConverterErrorsCaught ==
    \A t \in TaskIds :
        /\ exec[t].pc # "escaped"
        /\ exec[t].e # NoExc => exec[t].pc \in {"l51", "l52", "done"}
        /\ (exec[t].pc = "done" /\ exec[t].e # NoExc) =>
              /\ tasks[t].status = "failed"
              /\ tasks[t].error = exec[t].e.msg

C10_Witness ==
    \E t \in TaskIds :
        /\ exec[t].pc = "done" /\ exec[t].e.cls = "RuntimeError"
        /\ tasks[t].status = "failed"

\* C11: two successful submissions never share a staged file name, the write
\* of a submission never lands on a staged file that exists, and its
\* registration never lands on a registry entry that exists.
C11_NoOverwrite ==
    [][/\ \A a, b \in DOMAIN tasks' :
             a # b => tasks'[a].input_file # tasks'[b].input_file
       /\ \A t \in DOMAIN tasks : tasks'[t].input_file = tasks[t].input_file
       /\ (req.op = "upload" /\ req.pc = "l63" /\ req'.pc # "l63") =>
             req'.input_filename \notin uploads
       /\ (req.op = "upload" /\ req.pc = "l75" /\ req'.pc # "l75") =>
             req.task_id \notin DOMAIN tasks]_vars

C11_Witness ==
    \E a, b \in DOMAIN tasks :
        /\ a # b
        /\ {tasks[a].input_file, tasks[b].input_file} \subseteq uploads
        /\ Started(a) /\ Started(b)

\* C12: a status poll of an identifier without registry entry is answered
\* normally with the synthetic lost-context record, and changes no entry.
C12_UnknownPoll ==
    [][(req'.op = "status" /\ req' # req /\ req'.task_id \notin DOMAIN tasks) =>
          /\ req'.pc = "done" /\ req'.code = 200
          /\ req'.body = LostRecord
          /\ req'.body.status = "failed" /\ req'.body.error = LostContextMsg
          /\ tasks' = tasks]_vars

C12_Witness ==
    /\ req.op = "status" /\ req.task_id \notin DOMAIN tasks
    /\ req.body = LostRecord /\ req.code = 200
    /\ tasks # << >>

\* C13: the status response of a registered task that failed, whatever its
\* error text, differs from the response to an identifier without entry.
C13_UnknownDistinguishable ==
    \A t \in DOMAIN tasks :
        tasks[t].status = "failed" =>
            \A u \in (0..MaxTasks) \ DOMAIN tasks :
                StatusResponse(tasks, t) # StatusResponse(tasks, u)

C13_Witness ==
    /\ req.op = "status" /\ req.task_id \in DOMAIN tasks
    /\ req.body.status = "failed" /\ req.body.error = LostContextMsg
    /\ req.body = tasks[req.task_id]

C15_HandlersNotBlocked ==
    (\E t \in TaskIds : exec[t].pc = "l45") =>
        IF req.pc = "done"
        THEN /\ \A task_id \in TaskIds : ENABLED get_status(task_id)
             /\ \A size \in Sizes, filename \in Filenames, target_format \in Formats :
                   (size > MAX_SIZE \/ nextId <= MaxTasks) =>
                       ENABLED upload_l58(size, filename, target_format)
        ELSE ENABLED (\/ upload_l63 \/ upload_l75 \/ upload_l81 \/ upload_l82
                      \/ download_l96 \/ download_l99)

C15_Witness ==
    \E t \in TaskIds :
        /\ exec[t].pc = "l45"
        /\ req.op = "status" /\ req.task_id = t /\ req.body.status = "processing"
        /\ nextId > t + 1

\* C16: no record carries both output_file and error, and a record whose
\* status is pending or processing carries neither.
C16_OutcomeFieldsExclusive ==
    \A t \in DOMAIN tasks :
        /\ ~ (tasks[t].output_file # Absent /\ tasks[t].error # Absent)
        /\ tasks[t].status \in {"pending", "processing"} =>
              tasks[t].output_file = Absent /\ tasks[t].error = Absent

C16_Witness ==
    \E a, b \in DOMAIN tasks :
        /\ tasks[a].status = "processing" /\ exec[a].pc = "l45"
        /\ tasks[b].status = "completed" /\ tasks[b].output_file # Absent
        /\ tasks[b].error = Absent

\* C17: a step of the conversion_task of one task, the failure path included,
\* leaves the record of every other task and the set of registered tasks as
\* they were.
C17_ExecutorWritesOwnRecord ==
    [][\A t \in TaskIds :
          exec'[t] # exec[t] =>
              /\ DOMAIN tasks' = DOMAIN tasks
              /\ \A u \in DOMAIN tasks \ {t} : tasks'[u] = tasks[u]]_vars

C17_Witness ==
    \E a, b \in DOMAIN tasks :
        /\ a # b
        /\ exec[a].pc = "done" /\ tasks[a].status = "failed"
        /\ exec[b].pc = "l45" /\ tasks[b].status = "processing"

\* C18: every step of get_status and of download_file, whatever the
\* identifier and the outcome, leaves the registry and the files of both
\* directories as they were.
C18_ReadersReadOnly ==
    [][(req' # req /\ req'.op \in {"status", "download"}) =>
          /\ tasks' = tasks
          /\ uploads' = uploads
          /\ downloads' = downloads]_vars

C18_Witness ==
    /\ req.op = "download" /\ req.pc = "done" /\ req.code = 200
    /\ req.output_filename \in downloads
    /\ req.output_filename = tasks[req.task_id].output_file

\* C19: no step removes a registry entry, a rejected upload adds none, an
\* upload answered with a task identifier has added the entry of that
\* identifier, and the number of entries is the number of such uploads (plus
\* the one of an upload that has registered and not yet returned).
C19_OneEntryPerSubmission ==
    [][/\ DOMAIN tasks \subseteq DOMAIN tasks'
       /\ (req' # req /\ req'.op = "upload" /\ req'.code \in {413, 500}) =>
             DOMAIN tasks' = DOMAIN tasks
       /\ (req' # req /\ req'.op = "upload" /\ req'.code = 200) =>
             /\ req'.task_id \in DOMAIN tasks'
             /\ accepted' = accepted + 1
       /\ Cardinality(DOMAIN tasks') =
             accepted' + (IF req'.op = "upload" /\ req'.pc \in {"l81", "l82"}
                          THEN 1 ELSE 0)]_vars

C19_Witness ==
    /\ accepted = 2 /\ Cardinality(DOMAIN tasks) = 2
    /\ req.op = "upload" /\ req.code = 413

\* C20: when conversion_task starts for a task identifier, the registry holds
\* that identifier with status pending and the staged input file it was
\* handed is written; no registry lookup of conversion_task, the one of its
\* exception handler included, meets a missing key.
C20_RegisteredBeforeStart ==
    [][\A t \in TaskIds :
          /\ (exec[t].pc = "new" /\ exec'[t].pc # "new") =>
                /\ t \in DOMAIN tasks
                /\ tasks[t].status = "pending"
                /\ tasks[t].input_file \in uploads
                /\ Args(t)[2] = tasks[t].input_file
          /\ exec'[t].e.cls # "KeyError"
          /\ exec'[t].pc # "escaped"]_vars

C20_Witness ==
    \E t \in DOMAIN tasks :
        /\ exec[t].pc = "l51" /\ exec[t].e \in ConverterErrors
        /\ tasks[t].status = "processing"
        /\ tasks[t].input_file \in uploads
====
